---- MODULE Spec2Model ----
(***************************************************************************)
(* A model of the Mastermind engine of src/src/mastermind/mod.rs: the      *)
(* `State` struct, its constructor `new`, the secret generator             *)
(* `generate_new_pegs`, the scorer `matching`, and the guess pipeline      *)
(* `input_buffer` -> `finish_try` -> `reset`.                              *)
(***************************************************************************)
EXTENDS Integers, Sequences, FiniteSets, TLC

(***************************************************************************)
(* Bounds of the exploration.                                              *)
(***************************************************************************)
\* Sessions of every size `new` accepts are constructed; only those of at
\* most MaxSize pegs are played.
MaxSize == 2
\* max_tries is None or Some(k), k in 0..MaxTries.
MaxTries == 3
\* At most MaxGames records are appended to previous_games.
MaxGames == 2
\* A session without an effective try limit is followed for MaxAttempts tries.
MaxAttempts == 2
\* buffered_input is followed up to size_pegs + MaxOverflow colours.
MaxOverflow == 2
\* rng.gen::<usize>() yields a value in 0..MaxRand-1.
MaxRand == 2
\* The caller pushes one of the first MaxInput colours of COLOURS.
MaxInput == 2
\* push_string_input is called with texts of at most MaxText characters.
MaxText == 2
\* matching is applied to secrets and guesses of at most MaxMatchLen pegs over
\* the first MaxMatchColours colours of Palette.
MaxMatchLen == 4
MaxMatchColours == 3

(***************************************************************************)
(* enum Colour and static COLOURS.                                         *)
(***************************************************************************)
Colour == {"Red", "Orange", "Blue", "White", "Yellow", "Green"}

COLOURS == <<"Red", "Blue", "White", "Yellow", "Green", "Orange">>

\* The colours a caller pushes.
InputColours == {COLOURS[i] : i \in 1..MaxInput}

(***************************************************************************)
(* impl FromStr for Colour.  A text is a sequence of characters.           *)
(***************************************************************************)
UPPER == <<"A", "B", "C", "D", "E", "F", "G", "H", "I", "J", "K", "L", "M",
           "N", "O", "P", "Q", "R", "S", "T", "U", "V", "W", "X", "Y", "Z">>

LOWER == <<"a", "b", "c", "d", "e", "f", "g", "h", "i", "j", "k", "l", "m",
           "n", "o", "p", "q", "r", "s", "t", "u", "v", "w", "x", "y", "z">>

to_ascii_lowercase(c) ==
    IF \E i \in 1..Len(UPPER) : UPPER[i] = c
    THEN LOWER[CHOOSE i \in 1..Len(UPPER) : UPPER[i] = c]
    ELSE c

from_str(text) ==
    IF Len(text) = 0
    THEN [ok |-> FALSE, val |-> "", err |-> "Input too short!"]
    ELSE LET first == to_ascii_lowercase(Head(text))
         IN  CASE first = "r" -> [ok |-> TRUE, val |-> "Red", err |-> ""]
               [] first = "b" -> [ok |-> TRUE, val |-> "Blue", err |-> ""]
               [] first = "w" -> [ok |-> TRUE, val |-> "White", err |-> ""]
               [] first = "y" -> [ok |-> TRUE, val |-> "Yellow", err |-> ""]
               [] first = "g" -> [ok |-> TRUE, val |-> "Green", err |-> ""]
               [] first = "o" -> [ok |-> TRUE, val |-> "Orange", err |-> ""]
               [] OTHER -> [ok |-> FALSE, val |-> "",
                            err |-> "Invalid initial character: " \o first]

(***************************************************************************)
(* Option<T>: None is the empty sequence, Some(x) a sequence of one.       *)
(***************************************************************************)
None == <<>>

Some(x) == <<x>>

\* std::usize::MAX, as far as TLC's integers go; it is only ever compared
\* with previously_chosen.len() + 1.
USIZE_MAX == 2147483647

unwrap_or(opt, default) == IF opt = None THEN default ELSE opt[1]

\* Vec::contains
contains(vec, val) == \E i \in 1..Len(vec) : vec[i] = val

\* Vec::remove(index), 0-based index: the vector without that element.
remove(vec, index) ==
    [i \in 1..(Len(vec) - 1) |-> IF i <= index THEN vec[i] ELSE vec[i + 1]]

(***************************************************************************)
(* State::generate_new_pegs.  rs are the values rng.gen::<usize>() yields, *)
(* one per peg.                                                            *)
(***************************************************************************)
RECURSIVE remove_draws(_, _, _)
remove_draws(choice_pegs, rs, acc) ==
    IF rs = <<>> THEN acc
    ELSE LET index == Head(rs) % Len(choice_pegs)
         IN  remove_draws(remove(choice_pegs, index), Tail(rs),
                          Append(acc, choice_pegs[index + 1]))

\* generate_new_pegs indexing choice_pegs in both branches.
generate_new_pegs_no_removal(size, allow_duplicates, rs) ==
    LET choice_pegs == COLOURS
    IN  [i \in 1..size |-> choice_pegs[(rs[i] % Len(choice_pegs)) + 1]]

generate_new_pegs(size, allow_duplicates, rs) ==
    LET choice_pegs == COLOURS
    IN  IF allow_duplicates
        THEN [i \in 1..size |-> choice_pegs[(rs[i] % Len(choice_pegs)) + 1]]
        ELSE remove_draws(choice_pegs, SubSeq(rs, 1, size), <<>>)

\* The values of the rng for one generation of `size` pegs.
Draws(size) == [1..size -> 0..(MaxRand - 1)]

(***************************************************************************)
(* State::matching.  Ok((exact, colour)) or Err(String).                   *)
(***************************************************************************)
Ok(v) == [ok |-> TRUE, val |-> v, err |-> ""]

Err(msg) == [ok |-> FALSE, val |-> <<>>, err |-> msg]

DuplicateError == "Cannot have duplicated when using non-duplicate mode!"

\* score_step without the test that the secret contains the colour.
score_step_any_mismatch(pegs, state, idx, val) ==
    IF pegs[idx + 1] = val
    THEN <<state[1] + 1, state[2]>>
    ELSE <<state[1], state[2] + 1>>

\* score_step taking for the place of a colour its first place in the
\* secret.
score_step_first_occurrence(pegs, state, idx, val) ==
    IF contains(pegs, val)
    THEN IF (CHOOSE i \in 1..Len(pegs) :
               pegs[i] = val /\ \A j \in 1..(i - 1) : pegs[j] # val) = idx + 1
         THEN <<state[1] + 1, state[2]>>
         ELSE <<state[1], state[2] + 1>>
    ELSE state

\* score_step counting a colour in its place as present too.
score_step_counts_both(pegs, state, idx, val) ==
    IF contains(pegs, val)
    THEN IF pegs[idx + 1] = val
         THEN <<state[1] + 1, state[2] + 1>>
         ELSE <<state[1], state[2] + 1>>
    ELSE state

\* The closure both folds apply to (idx, val), idx 0-based.
score_step(pegs, state, idx, val) ==
    IF contains(pegs, val)
    THEN IF pegs[idx + 1] = val
         THEN <<state[1] + 1, state[2]>>
         ELSE <<state[1], state[2] + 1>>
    ELSE state

RECURSIVE try_fold(_, _, _, _, _)
try_fold(pegs, player, idx, seen, state) ==
    IF idx >= Len(player) THEN Ok(state)
    ELSE LET val == player[idx + 1]
         IN  IF contains(seen, val) THEN Err(DuplicateError)
             ELSE try_fold(pegs, player, idx + 1, Append(seen, val),
                           score_step(pegs, state, idx, val))

RECURSIVE fold(_, _, _, _)
fold(pegs, player, idx, state) ==
    IF idx >= Len(player) THEN state
    ELSE fold(pegs, player, idx + 1, score_step(pegs, state, idx, player[idx + 1]))

matching(self, idx) ==
    LET player == IF idx = None THEN self.buffered_input
                  ELSE self.previously_chosen[idx[1] + 1]
    IN  IF ~self.allow_duplicates
        THEN try_fold(self.pegs, player, 0, <<>>, <<0, 0>>)
        ELSE Ok(fold(self.pegs, player, 0, <<0, 0>>))

(***************************************************************************)
(* State::reset, State::finish_try, State::input_buffer.  Each yields the  *)
(* state it leaves; finish_try and input_buffer also their return value,   *)
(* a Result<bool, String>.  win_calls and lose_calls count the calls of    *)
(* the win and lose hooks, printed lists the scores the call has printed   *)
(* (terminal mode).                                                        *)
(***************************************************************************)
OkBool(b) == [ok |-> TRUE, flag |-> b, err |-> ""]

\* Err(msg) of input_buffer; Err((msg, flag)) of push_string_input.
ErrWith(msg, b) == [ok |-> FALSE, flag |-> b, err |-> msg]

\* reset clearing previous_games along with previously_chosen.
reset_clears_games(self, rs) ==
    [self EXCEPT !.previously_chosen = <<>>,
                 !.previous_games = <<>>,
                 !.buffered_input = <<>>,
                 !.pegs = generate_new_pegs(self.size_pegs, self.allow_duplicates, rs)]

\* reset without the clearing of previously_chosen.
reset_keeps_attempts(self, rs) ==
    [self EXCEPT !.buffered_input = <<>>,
                 !.pegs = generate_new_pegs(self.size_pegs, self.allow_duplicates, rs)]

reset(self, rs) ==
    [self EXCEPT !.previously_chosen = <<>>,
                 !.buffered_input = <<>>,
                 !.pegs = generate_new_pegs(self.size_pegs, self.allow_duplicates, rs)]

\* finish_try without the try limit.
finish_try_no_limit(self, rs) ==
    IF self.buffered_input = self.pegs
    THEN [self |-> reset([self EXCEPT
                            !.win_calls = @ + 1,
                            !.previous_games =
                                Append(@, <<self.pegs, Len(self.previously_chosen), TRUE>>)],
                         rs),
          ret |-> OkBool(TRUE)]
    ELSE LET m == matching(self, None)
         IN  IF self.terminal /\ ~m.ok
             THEN [self |-> self, ret |-> ErrWith(m.err, FALSE)]
             ELSE [self |-> [self EXCEPT
                               !.printed = IF self.terminal THEN Append(@, m.val) ELSE @,
                               !.previously_chosen = Append(@, self.buffered_input),
                               !.buffered_input = <<>>],
                   ret |-> OkBool(FALSE)]

\* finish_try comparing max_tries with the tries made, not with the one
\* being made.
finish_try_limit_off_by_one(self, rs) ==
    IF self.buffered_input = self.pegs
    THEN [self |-> reset([self EXCEPT
                            !.win_calls = @ + 1,
                            !.previous_games =
                                Append(@, <<self.pegs, Len(self.previously_chosen), TRUE>>)],
                         rs),
          ret |-> OkBool(TRUE)]
    ELSE IF unwrap_or(self.max_tries, USIZE_MAX) = Len(self.previously_chosen)
    THEN [self |-> reset([self EXCEPT
                            !.lose_calls = @ + 1,
                            !.previous_games =
                                Append(@, <<self.pegs, Len(self.previously_chosen), FALSE>>)],
                         rs),
          ret |-> OkBool(TRUE)]
    ELSE LET m == matching(self, None)
         IN  IF self.terminal /\ ~m.ok
             THEN [self |-> self, ret |-> ErrWith(m.err, FALSE)]
             ELSE [self |-> [self EXCEPT
                               !.printed = IF self.terminal THEN Append(@, m.val) ELSE @,
                               !.previously_chosen = Append(@, self.buffered_input),
                               !.buffered_input = <<>>],
                   ret |-> OkBool(FALSE)]

\* finish_try recording a lost game without the call of the lose hook.
finish_try_silent_loss(self, rs) ==
    IF self.buffered_input = self.pegs
    THEN [self |-> reset([self EXCEPT
                            !.win_calls = @ + 1,
                            !.previous_games =
                                Append(@, <<self.pegs, Len(self.previously_chosen), TRUE>>)],
                         rs),
          ret |-> OkBool(TRUE)]
    ELSE IF unwrap_or(self.max_tries, USIZE_MAX) = Len(self.previously_chosen) + 1
    THEN [self |-> reset([self EXCEPT
                            !.previous_games =
                                Append(@, <<self.pegs, Len(self.previously_chosen), FALSE>>)],
                         rs),
          ret |-> OkBool(TRUE)]
    ELSE LET m == matching(self, None)
         IN  IF self.terminal /\ ~m.ok
             THEN [self |-> self, ret |-> ErrWith(m.err, FALSE)]
             ELSE [self |-> [self EXCEPT
                               !.printed = IF self.terminal THEN Append(@, m.val) ELSE @,
                               !.previously_chosen = Append(@, self.buffered_input),
                               !.buffered_input = <<>>],
                   ret |-> OkBool(FALSE)]

\* finish_try testing the try limit before the guess.
finish_try_loss_first(self, rs) ==
    IF unwrap_or(self.max_tries, USIZE_MAX) = Len(self.previously_chosen) + 1
    THEN [self |-> reset([self EXCEPT
                            !.lose_calls = @ + 1,
                            !.previous_games =
                                Append(@, <<self.pegs, Len(self.previously_chosen), FALSE>>)],
                         rs),
          ret |-> OkBool(TRUE)]
    ELSE IF self.buffered_input = self.pegs
    THEN [self |-> reset([self EXCEPT
                            !.win_calls = @ + 1,
                            !.previous_games =
                                Append(@, <<self.pegs, Len(self.previously_chosen), TRUE>>)],
                         rs),
          ret |-> OkBool(TRUE)]
    ELSE LET m == matching(self, None)
         IN  IF self.terminal /\ ~m.ok
             THEN [self |-> self, ret |-> ErrWith(m.err, FALSE)]
             ELSE [self |-> [self EXCEPT
                               !.printed = IF self.terminal THEN Append(@, m.val) ELSE @,
                               !.previously_chosen = Append(@, self.buffered_input),
                               !.buffered_input = <<>>],
                   ret |-> OkBool(FALSE)]

\* finish_try copying the buffer into previously_chosen without draining it.
finish_try_keeps_buffer(self, rs) ==
    IF self.buffered_input = self.pegs
    THEN [self |-> reset([self EXCEPT
                            !.win_calls = @ + 1,
                            !.previous_games =
                                Append(@, <<self.pegs, Len(self.previously_chosen), TRUE>>)],
                         rs),
          ret |-> OkBool(TRUE)]
    ELSE IF unwrap_or(self.max_tries, USIZE_MAX) = Len(self.previously_chosen) + 1
    THEN [self |-> reset([self EXCEPT
                            !.lose_calls = @ + 1,
                            !.previous_games =
                                Append(@, <<self.pegs, Len(self.previously_chosen), FALSE>>)],
                         rs),
          ret |-> OkBool(TRUE)]
    ELSE LET m == matching(self, None)
         IN  IF self.terminal /\ ~m.ok
             THEN [self |-> self, ret |-> ErrWith(m.err, FALSE)]
             ELSE [self |-> [self EXCEPT
                               !.printed = IF self.terminal THEN Append(@, m.val) ELSE @,
                               !.previously_chosen = Append(@, self.buffered_input)],
                   ret |-> OkBool(FALSE)]

finish_try(self, rs) ==
    IF self.buffered_input = self.pegs
    THEN [self |-> reset([self EXCEPT
                            !.win_calls = @ + 1,
                            !.previous_games =
                                Append(@, <<self.pegs, Len(self.previously_chosen), TRUE>>)],
                         rs),
          ret |-> OkBool(TRUE)]
    ELSE IF unwrap_or(self.max_tries, USIZE_MAX) = Len(self.previously_chosen) + 1
    THEN [self |-> reset([self EXCEPT
                            !.lose_calls = @ + 1,
                            !.previous_games =
                                Append(@, <<self.pegs, Len(self.previously_chosen), FALSE>>)],
                         rs),
          ret |-> OkBool(TRUE)]
    ELSE LET m == matching(self, None)
         IN  IF self.terminal /\ ~m.ok
             THEN [self |-> self, ret |-> ErrWith(m.err, FALSE)]
             ELSE [self |-> [self EXCEPT
                               !.printed = IF self.terminal THEN Append(@, m.val) ELSE @,
                               !.previously_chosen = Append(@, self.buffered_input),
                               !.buffered_input = <<>>],
                   ret |-> OkBool(FALSE)]

input_buffer(self, value, rs) ==
    LET pushed == [self EXCEPT !.buffered_input = Append(@, value)]
    IN  IF Len(pushed.buffered_input) = pushed.size_pegs
        THEN finish_try(pushed, rs)
        ELSE [self |-> pushed, ret |-> OkBool(FALSE)]

\* The rng is drawn from only when the call ends a game.
DrawsFor(self, value) ==
    LET zeros == [i \in 1..self.size_pegs |-> 0]
    IN  IF input_buffer(self, value, zeros).ret = OkBool(TRUE)
        THEN Draws(self.size_pegs) ELSE {zeros}

\* push_string_input returning the result of its last character only.
RECURSIVE push_string_loop_last_flag(_, _, _)
push_string_loop_last_flag(self, text, should_reset) ==
    IF ~(Len(text) > 0)
    THEN {[self |-> self, ret |-> OkBool(should_reset)]}
    ELSE LET parsed == from_str(text)
         IN  IF ~parsed.ok
             THEN {[self |-> self, ret |-> ErrWith(parsed.err, should_reset)]}
             ELSE UNION {
                    LET r == input_buffer(self, parsed.val, rs)
                    IN  IF ~r.ret.ok
                        THEN {[self |-> r.self, ret |-> ErrWith(r.ret.err, should_reset)]}
                        ELSE push_string_loop_last_flag(r.self, Tail(text), r.ret.flag)
                    : rs \in DrawsFor(self, parsed.val)}

\* push_string_input losing, in the error of a character, the game end of
\* the characters before it.
RECURSIVE push_string_loop_stale_flag(_, _, _)
push_string_loop_stale_flag(self, text, should_reset) ==
    IF ~(Len(text) > 0)
    THEN {[self |-> self, ret |-> OkBool(should_reset)]}
    ELSE LET parsed == from_str(text)
         IN  IF ~parsed.ok
             THEN {[self |-> self, ret |-> ErrWith(parsed.err, FALSE)]}
             ELSE UNION {
                    LET r == input_buffer(self, parsed.val, rs)
                    IN  IF ~r.ret.ok
                        THEN {[self |-> r.self, ret |-> ErrWith(r.ret.err, FALSE)]}
                        ELSE push_string_loop_stale_flag(r.self, Tail(text),
                                                         should_reset \/ r.ret.flag)
                    : rs \in DrawsFor(self, parsed.val)}

(***************************************************************************)
(* State::push_string_input: the set of the outcomes the rng allows.       *)
(***************************************************************************)
RECURSIVE push_string_loop(_, _, _)
push_string_loop(self, text, should_reset) ==
    IF ~(Len(text) > 0)
    THEN {[self |-> self, ret |-> OkBool(should_reset)]}
    ELSE LET parsed == from_str(text)
         IN  IF ~parsed.ok
             THEN {[self |-> self, ret |-> ErrWith(parsed.err, should_reset)]}
             ELSE UNION {
                    LET r == input_buffer(self, parsed.val, rs)
                    IN  IF ~r.ret.ok
                        THEN {[self |-> r.self, ret |-> ErrWith(r.ret.err, should_reset)]}
                        ELSE push_string_loop(r.self, Tail(text),
                                              should_reset \/ r.ret.flag)
                    : rs \in DrawsFor(self, parsed.val)}

push_string_input(self, text) == push_string_loop(self, text, FALSE)

(***************************************************************************)
(* State::new: None when size exceeds the number of colours.               *)
(***************************************************************************)
\* `new` refusing a size equal to the number of colours as well.
new_rejects_all_colours(size, allow_duplicates, max_tries, terminal, rs) ==
    IF size >= Len(COLOURS)
    THEN None
    ELSE Some([pegs |-> generate_new_pegs(size, allow_duplicates, rs),
               previously_chosen |-> <<>>,
               previous_games |-> <<>>,
               size_pegs |-> size,
               allow_duplicates |-> allow_duplicates,
               buffered_input |-> <<>>,
               max_tries |-> max_tries,
               terminal |-> terminal,
               win_calls |-> 0,
               lose_calls |-> 0,
               printed |-> <<>>])

new(size, allow_duplicates, max_tries, terminal, rs) ==
    IF size > Len(COLOURS)
    THEN None
    ELSE Some([pegs |-> generate_new_pegs(size, allow_duplicates, rs),
               previously_chosen |-> <<>>,
               previous_games |-> <<>>,
               size_pegs |-> size,
               allow_duplicates |-> allow_duplicates,
               buffered_input |-> <<>>,
               max_tries |-> max_tries,
               terminal |-> terminal,
               win_calls |-> 0,
               lose_calls |-> 0,
               printed |-> <<>>])

(***************************************************************************)
(* The session: the fields of State (constructed = FALSE when `new`        *)
(* returned None), the hook and print effects, the last call made on it    *)
(* and, for a caller that carries on after an error as the loop of `main`  *)
(* does, the colours it has pushed since a duplicate error.  The last      *)
(* three are the locals of a running generate_new_pegs: the colours left   *)
(* to choose from, the values the rng has yielded, and where it stands.    *)
(***************************************************************************)
VARIABLES constructed, pegs, previously_chosen, previous_games, size_pegs,
          allow_duplicates, buffered_input, max_tries, terminal,
          win_calls, lose_calls, printed, call, since_err,
          choice_pegs, rng_values, gen_pc

vars == <<constructed, pegs, previously_chosen, previous_games, size_pegs,
          allow_duplicates, buffered_input, max_tries, terminal,
          win_calls, lose_calls, printed, call, since_err,
          choice_pegs, rng_values, gen_pc>>

\* No generation is being followed step by step.
NotGenerating ==
    /\ choice_pegs = <<>>
    /\ rng_values = <<>>
    /\ gen_pc = "idle"

Self ==
    [pegs |-> pegs,
     previously_chosen |-> previously_chosen,
     previous_games |-> previous_games,
     size_pegs |-> size_pegs,
     allow_duplicates |-> allow_duplicates,
     buffered_input |-> buffered_input,
     max_tries |-> max_tries,
     terminal |-> terminal,
     win_calls |-> win_calls,
     lose_calls |-> lose_calls,
     printed |-> printed]

\* The variables take the fields of `self`.
Becomes(self) ==
    /\ pegs' = self.pegs
    /\ previously_chosen' = self.previously_chosen
    /\ previous_games' = self.previous_games
    /\ size_pegs' = self.size_pegs
    /\ allow_duplicates' = self.allow_duplicates
    /\ buffered_input' = self.buffered_input
    /\ max_tries' = self.max_tries
    /\ terminal' = self.terminal
    /\ win_calls' = self.win_calls
    /\ lose_calls' = self.lose_calls
    /\ printed' = self.printed

NoError == [pending |-> FALSE, pushed |-> <<>>]

\* The caller's record of the colours it pushed since the last duplicate
\* error, kept until they number size_pegs.
after_call(since, size, colours, ret) ==
    IF ~ret.ok /\ ret.err = DuplicateError
    THEN [pending |-> TRUE, pushed |-> <<>>]
    ELSE IF ret.ok /\ since.pending /\ Len(since.pushed) + Len(colours) < size
    THEN [since EXCEPT !.pushed = @ \o colours]
    ELSE NoError

Sizes == 0..(Len(COLOURS) + 1)

MaxTriesChoices == {None} \cup {Some(k) : k \in 0..MaxTries}

InitWith(sizes, tries, terminals) ==
    \E size \in sizes, dup \in BOOLEAN, mt \in tries, term \in terminals :
      \E rs \in Draws(IF size > Len(COLOURS) THEN 0 ELSE size) :
        LET made == new(size, dup, mt, term, rs)
        IN  /\ constructed = (made # None)
            /\ pegs = IF made = None THEN <<>> ELSE made[1].pegs
            /\ previously_chosen = <<>>
            /\ previous_games = <<>>
            /\ size_pegs = size
            /\ allow_duplicates = dup
            /\ buffered_input = <<>>
            /\ max_tries = mt
            /\ terminal = term
            /\ win_calls = 0
            /\ lose_calls = 0
            /\ printed = <<>>
            /\ call = [op |-> "new", value |-> "", text |-> <<>>,
                       ret |-> IF made = None THEN ErrWith("None", FALSE)
                               ELSE OkBool(FALSE)]
            /\ since_err = NoError
            /\ NotGenerating

Init == InitWith(Sizes, MaxTriesChoices, BOOLEAN)

\* The exploration follows a call only while its result stays in the bounds.
InBounds(self) ==
    /\ self.size_pegs <= MaxSize
    /\ Len(self.previous_games) <= MaxGames
    /\ Len(self.previously_chosen) <= MaxAttempts
    /\ Len(self.buffered_input) <= self.size_pegs + MaxOverflow

\* A call of input_buffer(value).
Push(value) ==
    /\ constructed
    /\ LET self == [Self EXCEPT !.printed = <<>>]
       IN  \E rs \in DrawsFor(self, value) :
             LET r == input_buffer(self, value, rs)
             IN  /\ InBounds(r.self)
                 /\ Becomes(r.self)
                 /\ call' = [op |-> "input_buffer", value |-> value, text |-> <<>>,
                             ret |-> r.ret]
                 /\ since_err' = after_call(since_err, size_pegs, <<value>>, r.ret)
    /\ UNCHANGED <<constructed, choice_pegs, rng_values, gen_pc>>

\* The characters of the texts: the letter of each colour pushed, a capital
\* letter, and a character of no colour.
letter(colour) ==
    CHOOSE c \in {"r", "b", "w", "y", "g", "o"} : from_str(<<c>>).val = colour

TextChars == {letter(colour) : colour \in InputColours} \cup {"R", "x"}

Texts == UNION {[1..n -> TextChars] : n \in 0..MaxText}

\* A call of push_string_input(text).
PushText(text) ==
    /\ constructed
    /\ LET self == [Self EXCEPT !.printed = <<>>]
       IN  \E r \in push_string_input(self, text) :
             /\ InBounds(r.self)
             /\ Becomes(r.self)
             /\ call' = [op |-> "push_string_input", value |-> "", text |-> text,
                         ret |-> r.ret]
             /\ since_err' = after_call(since_err, size_pegs,
                                        [i \in 1..Len(text) |-> from_str(<<text[i]>>).val],
                                        r.ret)
    /\ UNCHANGED <<constructed, choice_pegs, rng_values, gen_pc>>

(***************************************************************************)
(* Spec: every session `new` yields, driven by input_buffer, one colour a  *)
(* call.  SpecText: sessions of 1..MaxSize pegs in terminal mode with a    *)
(* try limit, driven by input_buffer and by push_string_input.             *)
(***************************************************************************)
Next == \E value \in InputColours : Push(value)

Spec == Init /\ [][Next]_vars

InitText == InitWith(1..MaxSize, {Some(MaxTries - 1)}, {TRUE})

NextText ==
    \/ \E value \in InputColours : Push(value)
    \/ \E text \in Texts : PushText(text)

SpecText == InitText /\ [][NextText]_vars

(***************************************************************************)
(* SpecMatching: matching(None) applied, as finish_try applies it, to a    *)
(* session whose buffer holds a full guess.                                *)
(***************************************************************************)
Palette == <<"Red", "Blue", "Green", "White", "Yellow", "Orange">>

MatchColours == {Palette[i] : i \in 1..MaxMatchColours}

InitMatching ==
    \E n \in 0..MaxMatchLen, dup \in BOOLEAN :
      \E secret \in [1..n -> MatchColours], guess \in [1..n -> MatchColours] :
        /\ dup \/ \A i, j \in 1..n : i # j => secret[i] # secret[j]
        /\ constructed = TRUE
        /\ pegs = secret
        /\ previously_chosen = <<>>
        /\ previous_games = <<>>
        /\ size_pegs = n
        /\ allow_duplicates = dup
        /\ buffered_input = guess
        /\ max_tries = None
        /\ terminal = TRUE
        /\ win_calls = 0
        /\ lose_calls = 0
        /\ printed = <<>>
        /\ call = [op |-> "finish_try", value |-> "", text |-> <<>>,
                   ret |-> OkBool(FALSE)]
        /\ since_err = NoError
        /\ NotGenerating

\* The call of matching(None) in finish_try: the score is printed, or the
\* error returned.
Matching ==
    /\ call.op = "finish_try"
    /\ LET m == matching(Self, None)
       IN  /\ printed' = IF m.ok THEN <<m.val>> ELSE <<>>
           /\ call' = [op |-> "matching", value |-> "", text |-> <<>>,
                       ret |-> IF m.ok THEN OkBool(FALSE) ELSE ErrWith(m.err, FALSE)]
    /\ UNCHANGED <<constructed, pegs, previously_chosen, previous_games, size_pegs,
                   allow_duplicates, buffered_input, max_tries, terminal,
                   win_calls, lose_calls, since_err,
                   choice_pegs, rng_values, gen_pc>>

NextMatching == Matching

SpecMatching == InitMatching /\ [][NextMatching]_vars

\* The sessions `main` makes, 2 to 6 pegs in terminal mode with a try limit:
\* the limit, 10 there, is any positive one up to MaxTries.
InitIface == InitWith(2..Len(COLOURS), {Some(k) : k \in 1..MaxTries}, {TRUE})

SpecIface == InitIface /\ [][Next]_vars

(***************************************************************************)
(* Vocabulary of the properties.                                           *)
(***************************************************************************)
try_count == Len(previously_chosen)

NoRepeat(seq) == \A i, j \in 1..Len(seq) : i # j => seq[i] # seq[j]

\* A guess the mode admits.
ValidGuess(guess) == allow_duplicates \/ NoRepeat(guess)

\* This step is a call of input_buffer whose colour fills the buffer.
CompletesGuess ==
    /\ constructed
    /\ call'.op = "input_buffer"
    /\ Len(buffered_input) + 1 = size_pegs

\* The guess such a step completes.
Guess == Append(buffered_input, call'.value)

\* A sequence a generation may yield for this session.
ValidSecret(secret) ==
    /\ Len(secret) = size_pegs
    /\ \A i \in 1..Len(secret) : secret[i] \in Colour
    /\ ~allow_duplicates => NoRepeat(secret)

\* The game is closed and the next one opened.
GameReset ==
    /\ previously_chosen' = <<>>
    /\ buffered_input' = <<>>
    /\ ValidSecret(pegs')

(***************************************************************************)
(* C1.  Win transition: a push that completes a guess equal to the secret  *)
(* fires the win hook once and the lose hook not at all, appends exactly   *)
(* the record (secret, try_count, true), empties the attempt history and   *)
(* the buffer, installs a generated secret and returns Ok(true).           *)
(***************************************************************************)
WinTransition ==
    [][(CompletesGuess /\ Guess = pegs)
       => /\ win_calls' = win_calls + 1
          /\ lose_calls' = lose_calls
          /\ previous_games' = Append(previous_games, <<pegs, try_count, TRUE>>)
          /\ GameReset
          /\ call'.ret = OkBool(TRUE)]_vars

\* A game won on its second try has just been closed.
WinWitness ==
    /\ constructed
    /\ call.op = "input_buffer"
    /\ call.ret = OkBool(TRUE)
    /\ win_calls = 1
    /\ Len(previous_games) = 1
    /\ previous_games[1][2] = 1
    /\ previous_games[1][3] = TRUE
    /\ size_pegs = 2

(***************************************************************************)
(* C2.  Loss by exhaustion: with max_tries = Some(k), k >= 1, in every     *)
(* game a push completing a valid guess that differs from the secret       *)
(* returns Ok(false) and adds the guess to the attempts while it is not    *)
(* the k-th of the game, and as the k-th fires the lose hook once,         *)
(* appends the record (secret, k - 1, false), resets the game and returns  *)
(* Ok(true); the lose hook fires in no other step.                         *)
(***************************************************************************)
LossByExhaustion ==
    [][/\ (/\ CompletesGuess
           /\ max_tries # None
           /\ unwrap_or(max_tries, 0) >= 1
           /\ Guess # pegs
           /\ ValidGuess(Guess))
          => IF try_count + 1 < max_tries[1]
             THEN /\ call'.ret = OkBool(FALSE)
                  /\ previously_chosen' = Append(previously_chosen, Guess)
                  /\ previous_games' = previous_games
                  /\ lose_calls' = lose_calls
             ELSE /\ try_count + 1 = max_tries[1]
                  /\ lose_calls' = lose_calls + 1
                  /\ win_calls' = win_calls
                  /\ previous_games' =
                        Append(previous_games, <<pegs, max_tries[1] - 1, FALSE>>)
                  /\ GameReset
                  /\ call'.ret = OkBool(TRUE)
       /\ (constructed /\ lose_calls' # lose_calls)
          => /\ CompletesGuess
             /\ max_tries = Some(try_count + 1)
             /\ Guess # pegs]_vars

\* With max_tries = Some(3), the second game of the session has just been
\* lost on its third guess.
LossWitness ==
    /\ constructed
    /\ max_tries = Some(3)
    /\ size_pegs = 2
    /\ call.op = "input_buffer"
    /\ call.ret = OkBool(TRUE)
    /\ Len(previous_games) = 2
    /\ previous_games[2][2] = 2
    /\ previous_games[2][3] = FALSE
    /\ lose_calls >= 1

(***************************************************************************)
(* C3.  Buffer bound: whenever no call is running, the buffer holds fewer  *)
(* than size_pegs colours.                                                 *)
(***************************************************************************)
BufferBound == constructed => Len(buffered_input) < size_pegs

(***************************************************************************)
(* C4.  Guess atomicity: a push that completes a guess either rejects it,  *)
(* leaving the session as it was before the guess (the buffer empty, the   *)
(* attempts, the games, the secret and the hooks untouched), or applies    *)
(* it and leaves the buffer drained.                                       *)
(***************************************************************************)
GuessAtomicity ==
    [][CompletesGuess
       => /\ buffered_input' = <<>>
          /\ ~call'.ret.ok
             => /\ previously_chosen' = previously_chosen
                /\ previous_games' = previous_games
                /\ pegs' = pegs
                /\ win_calls' = win_calls
                /\ lose_calls' = lose_calls]_vars

(***************************************************************************)
(* C5.  A duplicate error is recoverable: the size_pegs colours pushed     *)
(* after it are resolved as a guess, so that when they are the secret the  *)
(* last of them wins the game.                                             *)
(***************************************************************************)
DuplicateRecoverable ==
    [][(/\ constructed
        /\ since_err.pending
        /\ call'.op = "input_buffer"
        /\ Append(since_err.pushed, call'.value) = pegs)
       => /\ call'.ret = OkBool(TRUE)
          /\ win_calls' = win_calls + 1
          /\ previous_games' = Append(previous_games, <<pegs, try_count, TRUE>>)]_vars

(***************************************************************************)
(* C6.  Scoring: an accepted guess scores exact = the number of positions  *)
(* where guess and secret agree, colour-only = the number of the other     *)
(* positions whose guess colour occurs somewhere in the secret.            *)
(***************************************************************************)
ScoringRule ==
    (call.op = "matching" /\ call.ret.ok)
    => printed =
         << << Cardinality({i \in 1..size_pegs : pegs[i] = buffered_input[i]}),
               Cardinality({i \in 1..size_pegs :
                              /\ pegs[i] # buffered_input[i]
                              /\ \E j \in 1..size_pegs : pegs[j] = buffered_input[i]}) >> >>

\* Secret Red Red Blue Green, guess Red Green Blue Red, duplicates allowed:
\* the score is (2, 2).
ScoringWitness ==
    /\ call.op = "matching"
    /\ allow_duplicates
    /\ pegs = <<"Red", "Red", "Blue", "Green">>
    /\ buffered_input = <<"Red", "Green", "Blue", "Red">>
    /\ printed = << <<2, 2>> >>

(***************************************************************************)
(* C7.  Duplicate rejection: without duplicates allowed, a push completing *)
(* a guess with a repeated colour returns the duplicate error, whatever    *)
(* the try count, and neither scores it, nor adds it to the attempts, nor  *)
(* ends the game.                                                          *)
(***************************************************************************)
DuplicateRejection ==
    [][(CompletesGuess /\ ~allow_duplicates /\ ~NoRepeat(Guess))
       => /\ call'.ret = ErrWith(DuplicateError, FALSE)
          /\ printed' = <<>>
          /\ previously_chosen' = previously_chosen
          /\ previous_games' = previous_games
          /\ win_calls' = win_calls
          /\ lose_calls' = lose_calls]_vars

SecretValid == constructed => ValidSecret(pegs)

\* Without duplicates, two games have been closed and the secret in force
\* differs from the one before.
SecretWitness ==
    /\ constructed
    /\ ~allow_duplicates
    /\ size_pegs = 2
    /\ Len(previous_games) = 2
    /\ pegs # previous_games[2][1]

(***************************************************************************)
(* C10.  previous_games is append-only: every step keeps the records it    *)
(* held as a prefix; a push appends one record when it ends a game, with   *)
(* a win or a loss, and none when the round continues or it fails.         *)
(***************************************************************************)
HistoryAppendOnly ==
    [][constructed
       => /\ Len(previous_games') >= Len(previous_games)
          /\ SubSeq(previous_games', 1, Len(previous_games)) = previous_games
          /\ Len(previous_games') - Len(previous_games)
               = (win_calls' - win_calls) + (lose_calls' - lose_calls)
          /\ call'.op = "input_buffer"
             => Len(previous_games')
                  = Len(previous_games) + (IF call'.ret = OkBool(TRUE) THEN 1 ELSE 0)]_vars

\* A win and then a loss are recorded, in that order.
HistoryWitness ==
    /\ constructed
    /\ Len(previous_games) = 2
    /\ previous_games[1][3] = TRUE
    /\ previous_games[2][3] = FALSE
    /\ win_calls = 1
    /\ lose_calls = 1

(***************************************************************************)
(* Vocabulary of the properties of push_string_input.                      *)
(***************************************************************************)
\* This step is a call of push_string_input.
TextStep == constructed /\ call'.op = "push_string_input"

\* The first character of the text that is no colour letter, Len + 1 when
\* every one is.
FirstBad(text) ==
    IF \A i \in 1..Len(text) : from_str(<<text[i]>>).ok
    THEN Len(text) + 1
    ELSE CHOOSE i \in 1..Len(text) :
           /\ ~from_str(<<text[i]>>).ok
           /\ \A j \in 1..(i - 1) : from_str(<<text[j]>>).ok

\* The colours of the first n characters of the text.
ColoursOf(text, n) == [i \in 1..n |-> from_str(<<text[i]>>).val]

RECURSIVE games_tries(_)
games_tries(games) ==
    IF games = <<>> THEN 0 ELSE (Head(games)[2] + 1) + games_tries(Tail(games))

\* The guesses the session has resolved: the attempts of the game in
\* progress, and the tries of each game closed with the guess that closed it.
resolved(self) == Len(self.previously_chosen) + games_tries(self.previous_games)

\* The fields of the session without the score printed by the last call.
Quiet(self) == [self EXCEPT !.printed = <<>>]

\* The sessions reached by pushing the colours one input_buffer call at a
\* time, none of the calls failing, each with whether a game ended so far.
RECURSIVE push_each(_, _, _)
push_each(self, colours, ended) ==
    IF colours = <<>>
    THEN {[self |-> Quiet(self), ended |-> ended]}
    ELSE UNION {
           LET r == input_buffer(self, Head(colours), rs)
           IN  IF r.ret.ok
               THEN push_each(r.self, Tail(colours), ended \/ r.ret.flag)
               ELSE {}
           : rs \in DrawsFor(self, Head(colours))}

(***************************************************************************)
(* C11.  Buffer segmentation: a call of push_string_input with m colour    *)
(* letters, b colours being buffered, that meets no error resolves         *)
(* (b + m) div size_pegs guesses, leaves (b + m) mod size_pegs colours in  *)
(* the buffer unless a game end cleared it, and leaves the session as m    *)
(* calls of input_buffer with the same colours do.                         *)
(***************************************************************************)
BufferSegmentation ==
    [][(TextStep /\ call'.ret.ok)
       => LET b == Len(buffered_input)
              m == Len(call'.text)
          IN  /\ resolved(Self') = resolved(Self) + ((b + m) \div size_pegs)
              /\ \/ Len(buffered_input') = (b + m) % size_pegs
                 \/ call'.ret.flag /\ buffered_input' = <<>>
              /\ [self |-> Quiet(Self'), ended |-> call'.ret.flag]
                   \in push_each(Self, ColoursOf(call'.text, m), FALSE)]_vars

(***************************************************************************)
(* C12.  Parse failure: a call of push_string_input whose text has its     *)
(* first character of no colour at position i fails; unless a character    *)
(* before it was refused, the error is the one from_str gives for that     *)
(* character, the session is as the colours of characters 1..i-1 pushed    *)
(* one at a time leave it, and the flag of the error tells whether one of  *)
(* them ended a game.                                                      *)
(***************************************************************************)
ParseFailure ==
    [][(TextStep /\ FirstBad(call'.text) <= Len(call'.text))
       => LET i == FirstBad(call'.text)
          IN  /\ ~call'.ret.ok
              /\ \/ call'.ret.err = DuplicateError
                 \/ /\ call'.ret.err = from_str(<<call'.text[i]>>).err
                    /\ [self |-> Quiet(Self'), ended |-> call'.ret.flag]
                         \in push_each(Self, ColoursOf(call'.text, i - 1), FALSE)]_vars

\* The text "rx" or "bx" has closed a game with its first character and
\* failed on its second: the error carries the flag true.
ParseFailureWitness ==
    /\ constructed
    /\ call.op = "push_string_input"
    /\ Len(call.text) = 2
    /\ call.text[2] = "x"
    /\ call.ret = ErrWith("Invalid initial character: x", TRUE)
    /\ Len(previous_games) = 1
    /\ buffered_input = <<>>

(***************************************************************************)
(* C13.  Exact-match evaluation: in either mode, matching applied to a     *)
(* guess equal to the secret yields (the length of the secret, 0).         *)
(***************************************************************************)
ExactMatch ==
    (call.op = "matching" /\ buffered_input = pegs)
    => /\ call.ret.ok
       /\ printed = << <<Len(pegs), 0>> >>

\* With duplicates allowed, a secret of four pegs that repeats a colour
\* has been scored against itself.
ExactMatchWitness ==
    /\ call.op = "matching"
    /\ allow_duplicates
    /\ Len(pegs) = 4
    /\ ~NoRepeat(pegs)
    /\ buffered_input = pegs
    /\ printed = << <<4, 0>> >>

(***************************************************************************)
(* C14.  Score bounds: the two counts of an accepted guess add up to at    *)
(* most the length of the secret.                                          *)
(***************************************************************************)
ScoreBound ==
    (call.op = "matching" /\ call.ret.ok)
    => printed[1][1] + printed[1][2] <= Len(pegs)

\* Secret Red Blue Green, guess Red Green Blue, no duplicates: the score
\* (1, 2) reaches the bound.
ScoreBoundWitness ==
    /\ call.op = "matching"
    /\ ~allow_duplicates
    /\ pegs = <<"Red", "Blue", "Green">>
    /\ buffered_input = <<"Red", "Green", "Blue">>
    /\ printed = << <<1, 2>> >>

(***************************************************************************)
(* C15.  Construction: `new` returns no session exactly when the size      *)
(* asked for exceeds six, the number of the colours; otherwise the session *)
(* it returns has no attempt, no buffered colour, no game recorded, a      *)
(* generated secret of the size asked for, and neither hook called.        *)
(***************************************************************************)
Construction ==
    call.op = "new"
    => /\ constructed <=> ~(size_pegs > 6)
       /\ call.ret.ok <=> constructed
       /\ constructed
          => /\ try_count = 0
             /\ previously_chosen = <<>>
             /\ buffered_input = <<>>
             /\ previous_games = <<>>
             /\ ValidSecret(pegs)
             /\ win_calls = 0
             /\ lose_calls = 0

\* A session of six pegs, the largest size accepted, has been made.
ConstructionWitness ==
    /\ call.op = "new"
    /\ constructed
    /\ size_pegs = 6
    /\ Len(pegs) = 6
    /\ ~allow_duplicates

\* This step leaves the game in progress with the guess as its last attempt.
RoundContinues ==
    /\ previously_chosen' = Append(previously_chosen, Guess)
    /\ Len(previously_chosen') = try_count + 1
    /\ buffered_input' = <<>>
    /\ pegs' = pegs
    /\ previous_games' = previous_games
    /\ size_pegs' = size_pegs
    /\ allow_duplicates' = allow_duplicates
    /\ max_tries' = max_tries
    /\ win_calls' = win_calls
    /\ lose_calls' = lose_calls
    /\ call'.ret = OkBool(FALSE)

\* The guess being completed is not the last one max_tries permits.
BudgetLeft == max_tries = None \/ try_count + 1 # max_tries[1]

(***************************************************************************)
(* C16, as stated.  Round effect: a push completing a guess that differs   *)
(* from the secret, the budget not exhausted, appends the guess to the     *)
(* attempts, drains the buffer, changes nothing else, calls no hook and    *)
(* returns Ok(false).                                                      *)
(***************************************************************************)
RoundEffectAnyGuess ==
    [][(CompletesGuess /\ Guess # pegs /\ BudgetLeft) => RoundContinues]_vars

(***************************************************************************)
(* C16, amended.  Round effect: a push completing a guess the mode admits  *)
(* (no colour twice unless duplicates are allowed) that differs from the   *)
(* secret, the budget not exhausted, appends the guess to the attempts,    *)
(* drains the buffer, changes nothing else, calls no hook and returns      *)
(* Ok(false).                                                              *)
(***************************************************************************)
RoundEffect ==
    [][(CompletesGuess /\ ValidGuess(Guess) /\ Guess # pegs /\ BudgetLeft)
       => RoundContinues]_vars

\* With no try limit, the second guess of a game has been scored and added
\* to the attempts.
RoundEffectWitness ==
    /\ constructed
    /\ max_tries = None
    /\ terminal
    /\ call.op = "input_buffer"
    /\ call.ret = OkBool(FALSE)
    /\ try_count = 2
    /\ previously_chosen[2] # pegs
    /\ buffered_input = <<>>
    /\ Len(printed) = 1

(***************************************************************************)
(* C17.  Win takes precedence over loss: a push that completes, as the     *)
(* last guess max_tries permits, a guess equal to the secret calls the win *)
(* hook and not the lose hook, and the record it appends is a won one.     *)
(***************************************************************************)
WinPrecedence ==
    [][(/\ CompletesGuess
        /\ max_tries # None
        /\ try_count + 1 = unwrap_or(max_tries, 0)
        /\ Guess = pegs)
       => /\ win_calls' = win_calls + 1
          /\ lose_calls' = lose_calls
          /\ previous_games' = Append(previous_games, <<pegs, try_count, TRUE>>)
          /\ call'.ret = OkBool(TRUE)]_vars

\* With max_tries = Some(2), the first game has just been won on its
\* second guess, the last one permitted.
WinPrecedenceWitness ==
    /\ constructed
    /\ max_tries = Some(2)
    /\ call.op = "input_buffer"
    /\ call.ret = OkBool(TRUE)
    /\ Len(previous_games) = 1
    /\ previous_games[1][2] = 1
    /\ previous_games[1][3] = TRUE
    /\ win_calls = 1
    /\ lose_calls = 0

(***************************************************************************)
(* C18.  The game-ended flag agrees with previous_games: a call of         *)
(* input_buffer returns Ok(true) exactly when it appends one record, and   *)
(* Ok(false) or an error exactly when it leaves previous_games as it was;  *)
(* a call of push_string_input that succeeds returns Ok(true) exactly when *)
(* it appends at least one record.                                         *)
(***************************************************************************)
FlagAgreesWithHistory ==
    [][constructed
       => LET grown == Len(previous_games') - Len(previous_games)
          IN  /\ call'.op = "input_buffer"
                 => /\ call'.ret = OkBool(TRUE) <=> grown = 1
                    /\ call'.ret # OkBool(TRUE) <=> previous_games' = previous_games
              /\ (call'.op = "push_string_input" /\ call'.ret.ok)
                 => (call'.ret.flag <=> grown >= 1)]_vars

\* A text of two letters has succeeded with Ok(true) on a session of one
\* peg that has won two games and made no other guess.
FlagWitness ==
    /\ constructed
    /\ size_pegs = 1
    /\ call.op = "push_string_input"
    /\ Len(call.text) = 2
    /\ call.ret = OkBool(TRUE)
    /\ Len(previous_games) = 2
    /\ win_calls = 2
    /\ previous_games[1][2] = 0
    /\ previous_games[2][2] = 0

(***************************************************************************)
(* C19.  The hooks match the history: in every state the win hook has been *)
(* called as many times as previous_games holds won records, the lose hook *)
(* as many times as it holds lost ones; with no max_tries the lose hook is *)
(* never called.                                                           *)
(***************************************************************************)
HooksMatchHistory ==
    /\ win_calls
         = Cardinality({i \in 1..Len(previous_games) : previous_games[i][3]})
    /\ lose_calls
         = Cardinality({i \in 1..Len(previous_games) : ~previous_games[i][3]})
    /\ max_tries = None => lose_calls = 0

\* With max_tries = Some(2), a game lost and then a game won are recorded,
\* and each hook has been called once.
HooksWitness ==
    /\ constructed
    /\ max_tries = Some(2)
    /\ Len(previous_games) = 2
    /\ previous_games[1][3] = FALSE
    /\ previous_games[2][3] = TRUE
    /\ win_calls = 1
    /\ lose_calls = 1

(***************************************************************************)
(* SpecGenerate: generate_new_pegs followed one round of its `map` at a    *)
(* time, for every size `new` lets through and both modes.  pegs is the    *)
(* vector being collected.  The function runs to its end without waiting   *)
(* for anything, hence the fairness.                                       *)
(***************************************************************************)
\* The residues of rng.gen::<usize>() modulo any length of choice_pegs.
RngValues == 0..(Len(COLOURS) - 1)

\* choice_pegs.remove(r % choice_pegs.len()) leaving the vector whole.
draw_remove_keeps_pool(pool, r) ==
    [pool |-> pool, val |-> pool[(r % Len(pool)) + 1]]

\* choice_pegs.remove(r % choice_pegs.len()): the colour removed and the
\* vector left.
draw_remove(pool, r) ==
    [pool |-> remove(pool, r % Len(pool)), val |-> pool[(r % Len(pool)) + 1]]

\* choice_pegs[r % choice_pegs.len()]
draw_index(pool, r) ==
    [pool |-> pool, val |-> pool[(r % Len(pool)) + 1]]

InitGenerate ==
    \E size \in 0..Len(COLOURS), dup \in BOOLEAN :
      /\ constructed = FALSE
      /\ pegs = <<>>
      /\ previously_chosen = <<>>
      /\ previous_games = <<>>
      /\ size_pegs = size
      /\ allow_duplicates = dup
      /\ buffered_input = <<>>
      /\ max_tries = None
      /\ terminal = FALSE
      /\ win_calls = 0
      /\ lose_calls = 0
      /\ printed = <<>>
      /\ call = [op |-> "generate_new_pegs", value |-> "", text |-> <<>>,
                 ret |-> OkBool(FALSE)]
      /\ since_err = NoError
      /\ choice_pegs = COLOURS
      /\ rng_values = <<>>
      /\ gen_pc = "map"

\* One round of the map over 0..size with the rng yielding r; a remainder
\* by the length of an empty vector panics.
Draw(r) ==
    /\ gen_pc = "map"
    /\ Len(pegs) < size_pegs
    /\ rng_values' = Append(rng_values, r)
    /\ IF Len(choice_pegs) = 0
       THEN /\ gen_pc' = "panic"
            /\ UNCHANGED <<pegs, choice_pegs>>
       ELSE LET d == IF allow_duplicates THEN draw_index(choice_pegs, r)
                     ELSE draw_remove(choice_pegs, r)
            IN  /\ pegs' = Append(pegs, d.val)
                /\ choice_pegs' = d.pool
                /\ gen_pc' = gen_pc
    /\ UNCHANGED <<constructed, previously_chosen, previous_games, size_pegs,
                   allow_duplicates, buffered_input, max_tries, terminal,
                   win_calls, lose_calls, printed, call, since_err>>

\* The range 0..size is exhausted: collect() returns the vector.
Collect ==
    /\ gen_pc = "map"
    /\ Len(pegs) = size_pegs
    /\ gen_pc' = "done"
    /\ UNCHANGED <<constructed, pegs, previously_chosen, previous_games, size_pegs,
                   allow_duplicates, buffered_input, max_tries, terminal,
                   win_calls, lose_calls, printed, call, since_err,
                   choice_pegs, rng_values>>

NextGenerate ==
    \/ \E r \in RngValues : Draw(r)
    \/ Collect

SpecGenerate == InitGenerate /\ [][NextGenerate]_vars /\ WF_vars(NextGenerate)

(***************************************************************************)
(* C20.  Generation without duplicates terminates: for every size up to    *)
(* six it returns, after exactly `size` values of the rng, each used to    *)
(* remove one colour from a choice_pegs that is not empty; no value is     *)
(* drawn for nothing and none from an empty choice_pegs.                   *)
(***************************************************************************)
GenerationTerminates ==
    /\ [][(gen_pc = "map" /\ ~allow_duplicates)
          => /\ gen_pc' # "panic"
             /\ rng_values' # rng_values
                => /\ Len(choice_pegs) > 0
                   /\ Len(choice_pegs') = Len(choice_pegs) - 1
                   /\ Len(rng_values') = Len(rng_values) + 1
                   /\ Len(pegs') = Len(rng_values')
             /\ gen_pc' = "done"
                => /\ Len(rng_values') = size_pegs
                   /\ Len(pegs') = size_pegs]_vars
    /\ (gen_pc = "map" /\ ~allow_duplicates) ~> (gen_pc = "done")

\* Six pegs have been generated without duplicates from six values of the
\* rng, and no colour is left to choose from.
GenerationWitness ==
    /\ gen_pc = "done"
    /\ ~allow_duplicates
    /\ size_pegs = 6
    /\ Len(rng_values) = 6
    /\ choice_pegs = <<>>
    /\ NoRepeat(pegs)
    /\ Len(pegs) = 6

====
